---- MODULE Spec2Model ----
(***************************************************************************)
(* Run & policy lifecycle of mcp_observer.                                 *)
(*                                                                         *)
(*   run_manager.py  RunManager: registry session -> ActiveRun, guarded by *)
(*                   one asyncio.Lock, with a background sweeper task.     *)
(*   observer.py     MCPObserver._check_tracking_policy: per-tool policy   *)
(*                   cache with an absolute expiry.                        *)
(*                                                                         *)
(* asyncio runs one task at a time and switches tasks only where a task    *)
(* suspends.  A step of this model is therefore what one task does between *)
(* two suspensions.  The suspension points of RunManager are: waiting for  *)
(* the lock when it is held, asyncio.sleep in the sweeper, awaiting the    *)
(* sweeper task in stop_sweeper, and awaiting observer.notify_run_end.     *)
(* start_sweeper, _create_new_run and _close_run_internal never suspend.   *)
(*                                                                         *)
(* Time.  The code compares differences of time.monotonic() readings only, *)
(* so the model keeps the differences: for each run the time elapsed since *)
(* its last_seen_at_mono, and for the sweeper the time left of its sleep.  *)
(* Tick lets one unit of time pass.  Elapsed times stop counting at        *)
(* ElapsedCap, above every value they are compared with.                   *)
(***************************************************************************)
EXTENDS Integers, Sequences, FiniteSets, TLC

----------------------------------------------------------------------------
(* Bounds of the model *)

MaxRuns == 2
MaxSweepers == 3
MaxStops == 2
MaxFaults == 1

Sessions == {"s1", "s2"}
Callers == {1, 2}
NoSession == "-"

RunIds == 1..MaxRuns
SweeperIds == 1..MaxSweepers

(* run_manager.py:61-62, 73-74: run_timeout_seconds and sweeper_interval,  *)
(* in ticks of the monotonic clock.                                        *)
run_timeout_seconds == 2
sweeper_interval == 1

WallStamps == {0, run_timeout_seconds + 1}

MaxWall == 2
Tools == {"echo", "add"}
Ttls == {0, 2}
FetchDelays == {0, 1}
DefaultCacheTtl == 3600

ElapsedCap == run_timeout_seconds + sweeper_interval + 1

----------------------------------------------------------------------------
VARIABLES
  active_runs,        \* RunManager._active_runs: session_id -> ActiveRun
  run_order,          \* insertion order of the keys of _active_runs
  closed_runs_count,  \* RunManager._closed_runs_count
  lock_owner,         \* task holding RunManager._lock, or NoTask
  lock_waiters,       \* FIFO of tasks suspended in _lock.acquire()
  sweeper_task,       \* RunManager._sweeper_task: 0 (None) or a sweeper id
  shutdown_event,     \* RunManager._shutdown_event
  observer,           \* whether RunManager._observer is set
  sw,                 \* the sweeper tasks ever created: id -> local state
  task,               \* the caller tasks: caller -> local state
  next_run,           \* number of run ids generated so far, plus one
  stops,              \* number of stop_sweeper calls made so far
  run_session,        \* history: run id -> session it was created for
  close_log,          \* history: run id -> what the close paths did to it
  hist,               \* history: session -> the last resolve applied to it
  returned,           \* history: session -> run ids returned to it so far
  ret,                \* history: the operation that returned last
  policy_cache,       \* MCPObserver._policy_cache: tool_name -> entry
  wall,               \* datetime.now().timestamp()
  last_outcome,       \* history: tool_name -> how its last check ended
  polret,             \* history: the policy check that returned last
  twin,               \* two run managers fed the same calls at the same
                      \* monotonic readings, with timestamps of their own
  run_manager,        \* the attribute observer.run_manager read by the wrappers
  wret                \* history: the wrapped call that ended last

rmvars == <<active_runs, run_order, closed_runs_count, lock_owner,
            lock_waiters, sweeper_task, shutdown_event, observer, sw, task,
            next_run, stops, run_session, close_log, hist, returned, ret>>

polvars == <<policy_cache, wall, last_outcome, polret>>

twvars == <<twin>>

wrvars == <<run_manager, wret>>

(* everything outside the run manager *)
nonrm == <<polvars, twvars, wrvars>>

vars == <<rmvars, polvars, twvars, wrvars>>

----------------------------------------------------------------------------
(* Tasks *)

NoTask == <<"none", 0>>
CallerTask(c) == <<"caller", c>>
SweeperTask(k) == <<"sweeper", k>>

(* ActiveRun, run_manager.py:18-30.  elapsed_mono is time.monotonic() -    *)
(* last_seen_at_mono, 0 when last_seen_at_mono is set to the current       *)
(* reading.  started_at_mono is read by duration_seconds() alone, which    *)
(* nothing calls, and is left out.                                         *)
ActiveRun(rid, s, ts) ==
  [run_id |-> rid, session_id |-> s,
   started_at |-> ts, last_seen_at |-> ts, elapsed_mono |-> 0]

(* ActiveRun.is_timed_out, run_manager.py:32-39 *)
is_timed_out_ge(run) == run.elapsed_mono >= run_timeout_seconds
is_timed_out_ms(run) == run.elapsed_mono > run_timeout_seconds * 1000
is_timed_out(run) == run.elapsed_mono > run_timeout_seconds

(* What an operation reports when it returns. *)
NoRet ==
  [op |-> "none", run_id |-> 0, is_new |-> FALSE,
   result |-> FALSE, gap |-> -1, prev_run |-> 0, explicit |-> FALSE,
   fresh |-> FALSE, was_active |-> FALSE, was_closed |-> FALSE,
   touched |-> FALSE, notify_raised |-> FALSE, raised |-> FALSE,
   sweepers |-> 0, had_run |-> FALSE, idle |-> -1, stored |-> 0,
   seen_before |-> 0, seen_after |-> 0]

IdleTask ==
  [pc |-> "idle", op |-> "none", s |-> NoSession, ts |-> 0, rid |-> 0,
   out |-> NoRet]

UnbornSweeper ==
  [pc |-> "unborn", sleep_left |-> 0, expired |-> <<>>, notifying |-> 0,
   faults |-> 0]

(* gap: time since the last resolve_or_create_run applied to the session,  *)
(* -1 before the first one.                                                *)
NoHist == [gap |-> -1, run |-> 0, explicit |-> FALSE]

NoClose ==
  [closes |-> 0, reason |-> "-", notifies |-> 0, notify_reason |-> "-",
   ended_at |-> 0, notify_error |-> "-"]

----------------------------------------------------------------------------
(* The registry dict: Python's d.get(k), d[k] = v, del d[k] and iteration  *)
(* in insertion order.                                                     *)

dict_set(reg, k, v) == [x \in (DOMAIN reg) \cup {k} |-> IF x = k THEN v ELSE reg[x]]
dict_del(reg, k) == [x \in (DOMAIN reg) \ {k} |-> reg[x]]
order_set(ord, k) ==
  IF \E i \in 1..Len(ord) : ord[i] = k THEN ord ELSE Append(ord, k)
order_del(ord, k) == SelectSeq(ord, LAMBDA x : x # k)

(* The state the close and create paths work on, threaded through them.    *)
RM ==
  [reg |-> active_runs, ord |-> run_order, cnt |-> closed_runs_count,
   log |-> close_log]

Commit(st) ==
  /\ active_runs' = st.reg
  /\ run_order' = st.ord
  /\ closed_runs_count' = st.cnt
  /\ close_log' = st.log

(* RunManager._close_run_internal, run_manager.py:283-305 *)
close_run_internal_keep(st, run, reason) ==
  [st EXCEPT !.cnt = @ + 1,
             !.log[run.run_id].closes = @ + 1,
             !.log[run.run_id].reason = reason]
close_run_internal_uncounted(st, run, reason) ==
  [st EXCEPT !.reg = dict_del(@, run.session_id),
             !.ord = order_del(@, run.session_id),
             !.log[run.run_id].closes = @ + 1,
             !.log[run.run_id].reason = reason]
close_run_internal(st, run, reason) ==
  [st EXCEPT !.reg = dict_del(@, run.session_id),
             !.ord = order_del(@, run.session_id),
             !.cnt = @ + 1,
             !.log[run.run_id].closes = @ + 1,
             !.log[run.run_id].reason = reason]

(* RunManager._close_run_and_notify, run_manager.py:254-281, up to the     *)
(* point where it suspends in notify_run_end (when an observer is set).    *)
(* notify_reason "-" stands for None.                                      *)
close_run_and_notify_first(st, run, reason, ended_at, notify_reason) ==
  IF observer
  THEN [st EXCEPT
          !.log[run.run_id].notifies = @ + 1,
          !.log[run.run_id].notify_reason =
             IF notify_reason = "-" THEN reason ELSE notify_reason,
          !.log[run.run_id].ended_at = ended_at]
  ELSE close_run_internal(st, run, reason)
close_run_and_notify_now(st, run, reason, ended_at, notify_reason) ==
  LET st1 == close_run_internal(st, run, reason) IN
  IF observer
  THEN [st1 EXCEPT
          !.log[run.run_id].notifies = @ + 1,
          !.log[run.run_id].notify_reason =
             IF notify_reason = "-" THEN reason ELSE notify_reason,
          !.log[run.run_id].ended_at = 0]
  ELSE st1
close_run_and_notify(st, run, reason, ended_at, notify_reason) ==
  LET st1 == close_run_internal(st, run, reason) IN
  IF observer
  THEN [st1 EXCEPT
          !.log[run.run_id].notifies = @ + 1,
          !.log[run.run_id].notify_reason =
             IF notify_reason = "-" THEN reason ELSE notify_reason,
          !.log[run.run_id].ended_at = ended_at]
  ELSE st1

(* RunManager._create_new_run, run_manager.py:224-252 *)
create_new_run_unstored(st, s, ts, rid) == st
create_new_run_sameid(st, s, ts, rid) ==
  [st EXCEPT !.reg = dict_set(@, s, ActiveRun(1, s, ts)),
             !.ord = order_set(@, s)]
create_new_run(st, s, ts, rid) ==
  [st EXCEPT !.reg = dict_set(@, s, ActiveRun(rid, s, ts)),
             !.ord = order_set(@, s)]

----------------------------------------------------------------------------
(* The lock, asyncio.Lock: acquire() takes it without suspending when it   *)
(* is free and nobody waits; release() hands it to the first waiter.       *)

LockFree == lock_owner = NoTask /\ lock_waiters = <<>>
Granted(t) ==
  /\ lock_owner = NoTask
  /\ lock_waiters # <<>>
  /\ Head(lock_waiters) = t

(* A call is made by a task that is in no call.  The caller tasks are      *)
(* interchangeable, so it is the first such task that makes it.            *)
FirstFree(c) ==
  /\ task[c].pc = "idle"
  /\ \A d \in Callers : d < c => task[d].pc # "idle"

(* RunManager.start_sweeper, run_manager.py:98-104 *)
NewSweeperNeeded ==
  IF sweeper_task = 0 THEN TRUE ELSE sw[sweeper_task].pc = "done"
LiveSweepers == {k \in SweeperIds : sw[k].pc \notin {"unborn", "done"}}
NextSweeper == Cardinality({k \in SweeperIds : sw[k].pc # "unborn"}) + 1

start_sweeper_noclear ==
  IF NewSweeperNeeded
  THEN /\ NextSweeper \in SweeperIds
       /\ sweeper_task' = NextSweeper
       /\ sw' = [sw EXCEPT ![NextSweeper].pc = "created"]
       /\ UNCHANGED shutdown_event
  ELSE UNCHANGED <<shutdown_event, sweeper_task, sw>>
start_sweeper ==
  IF NewSweeperNeeded
  THEN /\ NextSweeper \in SweeperIds
       /\ shutdown_event' = FALSE
       /\ sweeper_task' = NextSweeper
       /\ sw' = [sw EXCEPT ![NextSweeper].pc = "created"]
  ELSE UNCHANGED <<shutdown_event, sweeper_task, sw>>

----------------------------------------------------------------------------
(* resolve_or_create_run, run_manager.py:147-195 *)

InFlightResolves == Cardinality({c \in Callers : task[c].op = "resolve"})

(* What the call sees when it enters its critical section: the time since  *)
(* the last resolve applied to the session and the run that one returned,  *)
(* whether the session has a run, how long that run has been idle and its  *)
(* last_seen_at.                                                           *)
Observe(s) ==
  [NoRet EXCEPT
     !.op = "resolve",
     !.gap = hist[s].gap,
     !.prev_run = hist[s].run,
     !.explicit = hist[s].explicit,
     !.had_run = s \in DOMAIN active_runs,
     !.idle = IF s \in DOMAIN active_runs THEN active_runs[s].elapsed_mono
              ELSE -1,
     !.seen_before = IF s \in DOMAIN active_runs
                     THEN active_runs[s].last_seen_at ELSE 0]

(* return run_id, is_new: leaves the critical section. *)
ReturnResolve(c, s, rid, is_new, out) ==
  /\ task' = [task EXCEPT ![c] = IdleTask]
  /\ lock_owner' = NoTask
  /\ hist' = [hist EXCEPT ![s] = [gap |-> 0, run |-> rid, explicit |-> FALSE]]
  /\ returned' = [returned EXCEPT ![s] = @ \cup {rid}]
  /\ ret' = [out EXCEPT !.run_id = rid, !.is_new = is_new,
                        !.fresh = rid \notin returned[s],
                        !.stored = IF s \in DOMAIN active_runs'
                                   THEN active_runs'[s].run_id ELSE 0,
                        !.seen_after = IF s \in DOMAIN active_runs'
                                       THEN active_runs'[s].last_seen_at ELSE 0]

(* return await self._create_new_run(session_id, timestamp), True *)
CreateAndReturn(c, s, ts, st, out) ==
  /\ Commit(create_new_run(st, s, ts, next_run))
  /\ next_run' = next_run + 1
  /\ run_session' = [run_session EXCEPT ![next_run] = s]
  /\ ReturnResolve(c, s, next_run, TRUE, out)

(* Case 2, run_manager.py:179-187: the run is closed, and the call         *)
(* suspends in notify_run_end, holding the lock, when an observer is set.  *)
ResolveTimedOutNoClose(c, s, ts, out) ==
  CreateAndReturn(c, s, ts, RM, out)
ResolveTimedOut(c, s, ts, out) ==
  LET st == close_run_and_notify(RM, active_runs[s], "timeout", ts, "timeout") IN
  IF observer
  THEN /\ Commit(st)
       /\ task' = [task EXCEPT ![c] =
             [pc |-> "notify", op |-> "resolve", s |-> s, ts |-> ts,
              rid |-> active_runs[s].run_id, out |-> out]]
       /\ lock_owner' = CallerTask(c)
       /\ UNCHANGED <<next_run, run_session, hist, returned, ret>>
  ELSE CreateAndReturn(c, s, ts, st, out)

(* Case 3, run_manager.py:189-195 *)
ResolveRefreshAll(c, s, ts, out) ==
  /\ active_runs' = [k \in DOMAIN active_runs |->
        [active_runs[k] EXCEPT !.last_seen_at = ts,
                               !.elapsed_mono = IF k = s THEN 0 ELSE @]]
  /\ UNCHANGED <<run_order, closed_runs_count, close_log, next_run, run_session>>
  /\ ReturnResolve(c, s, active_runs[s].run_id, FALSE, out)
ResolveRefreshStale(c, s, ts, out) ==
  /\ active_runs' = [active_runs EXCEPT ![s].last_seen_at = ts]
  /\ UNCHANGED <<run_order, closed_runs_count, close_log, next_run, run_session>>
  /\ ReturnResolve(c, s, active_runs[s].run_id, FALSE, out)
ResolveRefresh(c, s, ts, out) ==
  /\ active_runs' = [active_runs EXCEPT ![s].last_seen_at = ts,
                                        ![s].elapsed_mono = 0]
  /\ UNCHANGED <<run_order, closed_runs_count, close_log, next_run, run_session>>
  /\ ReturnResolve(c, s, active_runs[s].run_id, FALSE, out)

(* The critical section, run_manager.py:172-195 *)
ResolveCS(c, s, ts) ==
  LET out == Observe(s) IN
  IF s \notin DOMAIN active_runs
  THEN CreateAndReturn(c, s, ts, RM, out)
  ELSE IF is_timed_out(active_runs[s])
       THEN ResolveTimedOut(c, s, ts, out)
       ELSE ResolveRefresh(c, s, ts, out)

(* The call: start_sweeper, then the critical section at once when the     *)
(* lock is free, else the task queues for the lock.                        *)
CallResolve(c, s, ts) ==
  /\ FirstFree(c)
  /\ next_run + InFlightResolves <= MaxRuns
  /\ start_sweeper
  /\ IF LockFree
     THEN /\ ResolveCS(c, s, ts)
          /\ UNCHANGED lock_waiters
     ELSE /\ task' = [task EXCEPT ![c] =
                [pc |-> "wait", op |-> "resolve", s |-> s, ts |-> ts,
                 rid |-> 0, out |-> NoRet]]
          /\ lock_waiters' = Append(lock_waiters, CallerTask(c))
          /\ UNCHANGED <<active_runs, run_order, closed_runs_count, close_log,
                         lock_owner, next_run, run_session, hist, returned, ret>>
  /\ UNCHANGED <<observer, stops>>

(* The call for a session whose run is live, made while the lock is free:  *)
(* it goes through case 3 at once and generates no run id.                 *)
ResolveKnown(c, s, ts) ==
  /\ FirstFree(c)
  /\ LockFree
  /\ s \in DOMAIN active_runs
  /\ ~is_timed_out(active_runs[s])
  /\ start_sweeper
  /\ ResolveCS(c, s, ts)
  /\ UNCHANGED <<lock_waiters, observer, stops>>

GrantResolve(c) ==
  /\ task[c].pc = "wait"
  /\ task[c].op = "resolve"
  /\ Granted(CallerTask(c))
  /\ lock_waiters' = Tail(lock_waiters)
  /\ ResolveCS(c, task[c].s, task[c].ts)
  /\ UNCHANGED <<observer, stops, shutdown_event, sweeper_task, sw>>

----------------------------------------------------------------------------
(* close_run, run_manager.py:197-222 *)

(* for session_id, active_run in list(self._active_runs.items()):          *)
(*     if active_run.run_id == run_id: the first match, in dict order.     *)
find_run_any(rid) ==
  IF run_order = <<>> THEN <<>> ELSE <<active_runs[Head(run_order)]>>
find_run(rid) ==
  LET hits == SelectSeq(run_order, LAMBDA k : active_runs[k].run_id = rid) IN
  IF hits = <<>> THEN <<>> ELSE <<active_runs[Head(hits)]>>

ObserveClose(rid) ==
  [NoRet EXCEPT
     !.op = "close", !.run_id = rid,
     !.was_active = \E k \in DOMAIN active_runs : active_runs[k].run_id = rid,
     !.was_closed = close_log[rid].closes > 0]

(* Whether this step changes the registry, the counter or what the        *)
(* observer was told.                                                      *)
Touches ==
  \/ active_runs' # active_runs
  \/ closed_runs_count' # closed_runs_count
  \/ close_log' # close_log

(* run_manager.py:221-222: no run has the id *)
NotFoundResultTrue == TRUE
NotFoundResult == FALSE

ReturnClose(c, result, out) ==
  /\ task' = [task EXCEPT ![c] = IdleTask]
  /\ lock_owner' = NoTask
  /\ ret' = [out EXCEPT !.result = result, !.touched = out.touched \/ Touches]

(* The critical section, run_manager.py:214-222.  ended_at -1 stands for   *)
(* None, which _close_run_and_notify replaces by datetime.now(), now.      *)
CloseCS(c, rid, ended_at, now) ==
  LET found == find_run(rid)
      out == ObserveClose(rid)
  IN
  IF found # <<>>
  THEN   LET run == found[1]
             ea == IF ended_at < 0 THEN now ELSE ended_at
             st == close_run_and_notify(RM, run, "explicit", ea, "-")
         IN
         /\ Commit(st)
         /\ hist' = [hist EXCEPT ![run.session_id].explicit = TRUE]
         /\ IF observer
            THEN /\ task' = [task EXCEPT ![c] =
                       [pc |-> "notify", op |-> "close", s |-> NoSession,
                        ts |-> 0, rid |-> rid,
                        out |-> [out EXCEPT !.touched = Touches]]]
                 /\ lock_owner' = CallerTask(c)
                 /\ UNCHANGED ret
            ELSE ReturnClose(c, TRUE, out)
  ELSE /\ UNCHANGED <<active_runs, run_order, closed_runs_count, close_log, hist>>
       /\ ReturnClose(c, NotFoundResult, out)

CallClose(c, rid, ended_at, now) ==
  /\ FirstFree(c)
  /\ rid <= next_run
  /\ IF LockFree
     THEN /\ CloseCS(c, rid, ended_at, now)
          /\ UNCHANGED lock_waiters
     ELSE /\ task' = [task EXCEPT ![c] =
                [pc |-> "wait", op |-> "close", s |-> NoSession,
                 ts |-> ended_at, rid |-> rid, out |-> NoRet]]
          /\ lock_waiters' = Append(lock_waiters, CallerTask(c))
          /\ UNCHANGED <<active_runs, run_order, closed_runs_count, close_log,
                         lock_owner, hist, ret>>
  /\ UNCHANGED <<observer, stops, shutdown_event, sweeper_task, sw,
                 next_run, run_session, returned>>

GrantClose(c, now) ==
  /\ task[c].pc = "wait"
  /\ task[c].op = "close"
  /\ Granted(CallerTask(c))
  /\ lock_waiters' = Tail(lock_waiters)
  /\ CloseCS(c, task[c].rid, task[c].ts, now)
  /\ UNCHANGED <<observer, stops, shutdown_event, sweeper_task, sw,
                 next_run, run_session, returned>>

(* run_manager.py:271-281: whether _close_run_and_notify goes on after     *)
(* notify_run_end; ok is FALSE when notify_run_end raised.  The try block  *)
(* catches Exception, so it always does.                                   *)
notify_caught_not(ok) == ok
notify_caught(ok) == TRUE

(* The operation ends with the exception of notify_run_end: async with     *)
(* releases the lock on the way out.                                       *)
RaiseOut(c, st, out) ==
  /\ task' = [task EXCEPT ![c] = IdleTask]
  /\ lock_owner' = NoTask
  /\ ret' = [out EXCEPT !.raised = TRUE]
  /\ Commit(st)
  /\ UNCHANGED <<next_run, run_session, hist, returned>>

(* history: what became of an exception of the notification of run rid *)
Notified(st, rid, ok) ==
  [st EXCEPT !.log[rid].notify_error =
     IF ok THEN @ ELSE IF notify_caught(ok) THEN "caught" ELSE "propagated"]

(* notify_run_end returns (ok) or raises: the caller goes on from where    *)
(* _close_run_and_notify was awaited, line 187 in resolve_or_create_run,   *)
(* line 219 in close_run.                                                  *)
NotifyReturn(c, ok) ==
  LET out == [task[c].out EXCEPT !.notify_raised = ~ok]
      st == Notified(RM, task[c].rid, ok)
  IN
  /\ task[c].pc = "notify"
  /\ IF ~notify_caught(ok)
     THEN RaiseOut(c, st, out)
     ELSE IF task[c].op = "resolve"
     THEN CreateAndReturn(c, task[c].s, task[c].ts, st, out)
     ELSE /\ Commit(st)
          /\ UNCHANGED <<next_run, run_session, hist, returned>>
          /\ ReturnClose(c, TRUE, out)
  /\ UNCHANGED <<observer, stops, shutdown_event, sweeper_task, sw,
                 lock_waiters>>

----------------------------------------------------------------------------
(* The sweeper, run_manager.py:114-145 *)

(* while not self._shutdown_event.is_set(): ... asyncio.sleep(interval)    *)
LoopTest(k) ==
  IF shutdown_event
  THEN [pc |-> "done", sleep_left |-> 0, expired |-> <<>>, notifying |-> 0,
        faults |-> sw[k].faults]
  ELSE [pc |-> "sleep", sleep_left |-> sweeper_interval, expired |-> <<>>,
        notifying |-> 0, faults |-> sw[k].faults]

(* run_manager.py:129-131: the runs found expired, in dict order *)
expired_runs_all == [i \in 1..Len(run_order) |-> active_runs[run_order[i]]]
expired_runs ==
  LET keys == SelectSeq(run_order,
                        LAMBDA k : is_timed_out(active_runs[k]))
  IN [i \in 1..Len(keys) |-> active_runs[keys[i]]]

(* run_manager.py:133-140 without an observer: no close suspends *)
RECURSIVE close_all(_, _)
close_all(st, runs) ==
  IF runs = <<>> THEN st
  ELSE close_all(close_run_and_notify(st, Head(runs), "timeout_sweep", 0, "timeout"),
                 Tail(runs))

(* The sweep goes on with the runs still to close: it closes the next one  *)
(* and suspends in its notify_run_end, or leaves the critical section and  *)
(* goes back to the loop test.  now is the reading of datetime.now().      *)
SweepOn(k, st, runs, now) ==
  IF runs # <<>> /\ observer
  THEN   /\ Commit(close_run_and_notify(st, Head(runs), "timeout_sweep", now,
                                        "timeout"))
         /\ sw' = [sw EXCEPT ![k] =
                     [pc |-> "notify", sleep_left |-> 0, expired |-> Tail(runs),
                      notifying |-> Head(runs).run_id,
                      faults |-> sw[k].faults]]
         /\ lock_owner' = SweeperTask(k)
  ELSE /\ Commit(close_all(st, runs))
       /\ sw' = [sw EXCEPT ![k] = LoopTest(k)]
       /\ lock_owner' = NoTask

(* The task created by start_sweeper runs for the first time. *)
SweeperStart(k) ==
  /\ sw[k].pc = "created"
  /\ sw' = [sw EXCEPT ![k] = LoopTest(k)]
  /\ UNCHANGED <<active_runs, run_order, closed_runs_count, lock_owner,
                 lock_waiters, sweeper_task, shutdown_event, observer, task,
                 next_run, stops, run_session, close_log, hist, returned, ret>>

(* asyncio.sleep is over: _sweep_expired_runs, at once when the lock is    *)
(* free, else the sweeper queues for the lock.                             *)
SweeperWake(k, now) ==
  /\ sw[k].pc = "sleep"
  /\ sw[k].sleep_left = 0
  /\ IF LockFree
     THEN /\ SweepOn(k, RM, expired_runs, now)
          /\ UNCHANGED lock_waiters
     ELSE /\ sw' = [sw EXCEPT ![k].pc = "wait"]
          /\ lock_waiters' = Append(lock_waiters, SweeperTask(k))
          /\ UNCHANGED <<active_runs, run_order, closed_runs_count, close_log,
                         lock_owner>>
  /\ UNCHANGED <<sweeper_task, shutdown_event, observer, task, next_run,
                 stops, run_session, hist, returned, ret>>

GrantSweeper(k, now) ==
  /\ sw[k].pc = "wait"
  /\ Granted(SweeperTask(k))
  /\ lock_waiters' = Tail(lock_waiters)
  /\ SweepOn(k, RM, expired_runs, now)
  /\ UNCHANGED <<sweeper_task, shutdown_event, observer, task, next_run,
                 stops, run_session, hist, returned, ret>>

(* notify_run_end returns (ok) or raises in the sweep: the sweep goes on   *)
(* with the next expired run.  An exception that left                      *)
(* _close_run_and_notify would leave the critical section and be caught by *)
(* the loop, run_manager.py:120-121, the other expired runs left open.     *)
SweeperNotifyReturn(k, now, ok) ==
  LET st == Notified(RM, sw[k].notifying, ok) IN
  /\ sw[k].pc = "notify"
  /\ IF ~notify_caught(ok)
     THEN /\ Commit(st)
          /\ sw' = [sw EXCEPT ![k] = LoopTest(k)]
          /\ lock_owner' = NoTask
     ELSE SweepOn(k, st, sw[k].expired, now)
  /\ UNCHANGED <<lock_waiters, sweeper_task, shutdown_event, observer,
                 task, next_run, stops, run_session, hist, returned, ret>>

(* except Exception, run_manager.py:120-121: an exception that left        *)
(* _sweep_expired_runs is logged and the loop goes back to its test        *)
sweep_error_ends_loop(k) ==
  [pc |-> "done", sleep_left |-> 0, expired |-> <<>>, notifying |-> 0,
   faults |-> sw[k].faults]
sweep_error_caught(k) == LoopTest(k)

(* A sweep iteration raises: the sweeper enters the critical section when  *)
(* its sleep is over, an exception is raised there before a run is closed  *)
(* and leaves _sweep_expired_runs, releasing the lock.  faults counts the  *)
(* iterations of the task that raised.                                     *)
SweeperFault(k) ==
  /\ sw[k].pc = "sleep"
  /\ sw[k].sleep_left = 0
  /\ sw[k].faults < MaxFaults
  /\ LockFree
  /\ sw' = [sw EXCEPT ![k] = [sweep_error_caught(k) EXCEPT !.faults = @ + 1]]
  /\ UNCHANGED <<active_runs, run_order, closed_runs_count, lock_owner,
                 lock_waiters, sweeper_task, shutdown_event, observer, task,
                 next_run, stops, run_session, close_log, hist, returned, ret>>

----------------------------------------------------------------------------
(* stop_sweeper, run_manager.py:106-112 *)

(* sweepers: how many sweeper tasks had been created when it returned *)
ReturnStop(c) ==
  /\ task' = [task EXCEPT ![c] = IdleTask]
  /\ ret' = [NoRet EXCEPT !.op = "stop", !.sweepers = NextSweeper - 1]

CallStop(c) ==
  /\ FirstFree(c)
  /\ stops < MaxStops
  /\ stops' = stops + 1
  /\ IF sweeper_task = 0
     THEN /\ ReturnStop(c)
          /\ UNCHANGED <<shutdown_event, sweeper_task>>
     ELSE /\ shutdown_event' = TRUE
          /\ IF sw[sweeper_task].pc = "done"
             THEN /\ sweeper_task' = 0
                  /\ ReturnStop(c)
             ELSE /\ task' = [task EXCEPT ![c] =
                        [pc |-> "await_task", op |-> "stop", s |-> NoSession,
                         ts |-> 0, rid |-> sweeper_task, out |-> NoRet]]
                  /\ UNCHANGED <<sweeper_task, ret>>
  /\ UNCHANGED <<active_runs, run_order, closed_runs_count, lock_owner,
                 lock_waiters, observer, sw, next_run, run_session, close_log,
                 hist, returned>>

(* await self._sweeper_task is over; self._sweeper_task = None *)
StopResume(c) ==
  /\ task[c].pc = "await_task"
  /\ sw[task[c].rid].pc = "done"
  /\ sweeper_task' = 0
  /\ ReturnStop(c)
  /\ UNCHANGED <<active_runs, run_order, closed_runs_count, lock_owner,
                 lock_waiters, shutdown_event, observer, sw, next_run, stops,
                 run_session, close_log, hist, returned>>

(* start_sweeper called by the application, run_manager.py:98-104; it      *)
(* never suspends                                                          *)
CallStart(c) ==
  /\ FirstFree(c)
  /\ NewSweeperNeeded
  /\ start_sweeper
  /\ UNCHANGED <<active_runs, run_order, closed_runs_count, lock_owner,
                 lock_waiters, observer, task, next_run, stops, run_session,
                 close_log, hist, returned, ret>>

----------------------------------------------------------------------------
(* MCPObserver._check_tracking_policy, observer.py:223-289 *)

(* an answer of the authority to GET /tracking-policy/{tool_name}: the     *)
(* request times out, fails in transport, raises something else (a body    *)
(* that is no JSON object), answers with another status than 200, or       *)
(* answers 200 with a JSON object that may lack either key                 *)
Failures == {"timeout", "request_error", "exception", "non200"}

Data == [has_can_store_full : BOOLEAN, can_store_full : BOOLEAN,
         has_cache_ttl : BOOLEAN, cache_ttl : Ttls]

Responses ==
  [kind : Failures] \cup
  {[kind |-> "ok", data |-> d] : d \in
     {d \in Data : /\ ~d.has_can_store_full => ~d.can_store_full
                   /\ ~d.has_cache_ttl => d.cache_ttl = 0}}

(* data.get("can_store_full", False), observer.py:265 *)
get_can_store_full(data) ==
  IF data.has_can_store_full THEN data.can_store_full ELSE FALSE

(* data.get("cache_ttl", 3600), observer.py:266 *)
get_cache_ttl_zero(data) ==
  IF data.has_cache_ttl THEN data.cache_ttl ELSE 0
get_cache_ttl(data) ==
  IF data.has_cache_ttl THEN data.cache_ttl ELSE DefaultCacheTtl

NoEntry == [can_store |-> FALSE, expires_at |-> -1]

(* data, stored_at: the body a successful fetch received and the reading   *)
(* of datetime.now() it added the TTL to                                   *)
NoData == [has_can_store_full |-> FALSE, can_store_full |-> FALSE,
           has_cache_ttl |-> FALSE, cache_ttl |-> 0]

NoPolRet == [tool |-> "-", now |-> 0, had_entry |-> FALSE, entry |-> NoEntry,
             result |-> FALSE, source |-> "none", fetches |-> 0,
             kind |-> "none", prev |-> "none", cache_same |-> TRUE,
             data |-> NoData, stored_at |-> 0]

(* observer.py:240-242: the entry is there and now < expires_at *)
cache_valid_le(tool, now) ==
  tool \in DOMAIN policy_cache /\ now <= policy_cache[tool].expires_at

cache_valid_never(tool, now) == FALSE

cache_valid(tool, now) ==
  tool \in DOMAIN policy_cache /\ now < policy_cache[tool].expires_at

(* what a check knows when it starts *)
ObservePolicy(tool) ==
  [NoPolRet EXCEPT
     !.tool = tool, !.now = wall,
     !.had_entry = tool \in DOMAIN policy_cache,
     !.entry = IF tool \in DOMAIN policy_cache THEN policy_cache[tool]
               ELSE NoEntry,
     !.prev = last_outcome[tool]]

ReturnPolicy(out, result, source, fetches, kind) ==
  /\ polret' = [out EXCEPT !.result = result, !.source = source,
                           !.fetches = fetches, !.kind = kind,
                           !.cache_same = (policy_cache' = policy_cache)]
  /\ last_outcome' = [last_outcome EXCEPT ![out.tool] = kind]

(* observer.py:240-244 *)
PolicyHit(tool, out) ==
  /\ wall' = wall
  /\ policy_cache' = policy_cache
  /\ ReturnPolicy(out, policy_cache[tool].can_store, "cache", 0, "hit")

(* observer.py:263-273; the request took delay units of time *)
PolicyStoreAlone(tool, data, delay, out) ==
  LET can_store == get_can_store_full(data)
      expires_at == (wall + delay) + get_cache_ttl(data)
  IN /\ wall' = wall + delay
     /\ policy_cache' = dict_set(<<>>, tool,
                          [can_store |-> can_store, expires_at |-> expires_at])
     /\ ReturnPolicy([out EXCEPT !.data = data, !.stored_at = wall + delay],
                     can_store, "authority", 1, "stored")
PolicyStore(tool, data, delay, out) ==
  LET can_store == get_can_store_full(data)
      expires_at == (wall + delay) + get_cache_ttl(data)
  IN /\ wall' = wall + delay
     /\ policy_cache' = dict_set(policy_cache, tool,
                          [can_store |-> can_store, expires_at |-> expires_at])
     /\ ReturnPolicy([out EXCEPT !.data = data, !.stored_at = wall + delay],
                     can_store, "authority", 1, "stored")

(* observer.py:274-289 *)
PolicyFailCached(tool, delay, out) ==
  /\ wall' = wall + delay
  /\ policy_cache' = dict_set(policy_cache, tool,
                       [can_store |-> FALSE, expires_at |-> wall + delay + 1])
  /\ ReturnPolicy(out, FALSE, "default", 1, "failed")

PolicyFail(tool, delay, out) ==
  /\ wall' = wall + delay
  /\ policy_cache' = policy_cache
  /\ ReturnPolicy(out, FALSE, "default", 1, "failed")

(* one call of _check_tracking_policy; it is synchronous, so nothing else  *)
(* of the process runs between its first line and its return               *)
CheckPolicy(tool, response, delay) ==
  /\ wall + delay <= MaxWall
  /\ LET out == ObservePolicy(tool)
     IN IF cache_valid(tool, wall)
        THEN delay = 0 /\ response = [kind |-> "timeout"]
             /\ PolicyHit(tool, out)
        ELSE IF response.kind = "ok"
             THEN PolicyStore(tool, response.data, delay, out)
             ELSE PolicyFail(tool, delay, out)

check_tracking_policy(tool, response, delay) ==
  /\ CheckPolicy(tool, response, delay)
  /\ UNCHANGED rmvars

(* time passes between two checks *)
WallTick ==
  /\ wall < MaxWall
  /\ wall' = wall + 1
  /\ UNCHANGED <<policy_cache, last_outcome, polret>>
  /\ UNCHANGED rmvars

----------------------------------------------------------------------------
(* Two run managers side by side.  Both are given the same calls, in the   *)
(* same order and at the same readings of time.monotonic(); each call      *)
(* carries one timestamp for the first and one for the second, and each    *)
(* sweep reads datetime.now() once in each.  The calls are applied one     *)
(* after the other: a call holds the lock from its test of the registry to *)
(* its return.  An execution keeps, besides the registry, the run ids it   *)
(* created and closed, in order, and what its last resolve returned.       *)

NewExec ==
  [reg |-> <<>>, ord |-> <<>>, cnt |-> 0, log |-> [r \in RunIds |-> NoClose],
   next |-> 1, is_new |-> FALSE, run_id |-> 0,
   creations |-> <<>>, closes |-> <<>>]

(* _create_new_run, run_manager.py:224-252, with a new run id *)
created_in(st, s, ts) ==
  [create_new_run(st, s, ts, st.next) EXCEPT
     !.next = @ + 1, !.is_new = TRUE, !.run_id = st.next,
     !.creations = Append(@, st.next)]

(* _close_run_and_notify, run_manager.py:254-281 *)
closed_in(st, run, reason, ended_at, notify_reason) ==
  [close_run_and_notify(st, run, reason, ended_at, notify_reason) EXCEPT
     !.closes = Append(@, run.run_id)]

(* resolve_or_create_run, run_manager.py:172-195 *)
resolve_in_wall(st, s, ts) ==
  IF s \notin DOMAIN st.reg
  THEN created_in(st, s, ts)
  ELSE IF ts - st.reg[s].last_seen_at > run_timeout_seconds
       THEN created_in(closed_in(st, st.reg[s], "timeout", ts, "timeout"), s, ts)
       ELSE [st EXCEPT !.reg[s].last_seen_at = ts,
                       !.reg[s].elapsed_mono = 0,
                       !.is_new = FALSE,
                       !.run_id = st.reg[s].run_id]
resolve_in(st, s, ts) ==
  IF s \notin DOMAIN st.reg
  THEN created_in(st, s, ts)
  ELSE IF is_timed_out(st.reg[s])
       THEN created_in(closed_in(st, st.reg[s], "timeout", ts, "timeout"), s, ts)
       ELSE [st EXCEPT !.reg[s].last_seen_at = ts,
                       !.reg[s].elapsed_mono = 0,
                       !.is_new = FALSE,
                       !.run_id = st.reg[s].run_id]

(* close_run, run_manager.py:214-222, ended_at None replaced by now *)
close_in(st, rid, now) ==
  LET hits == SelectSeq(st.ord, LAMBDA k : st.reg[k].run_id = rid) IN
  IF hits = <<>> THEN st
  ELSE closed_in(st, st.reg[Head(hits)], "explicit", now, "-")

(* _sweep_expired_runs, run_manager.py:126-140 *)
expired_in(st) ==
  LET keys == SelectSeq(st.ord, LAMBDA k : is_timed_out(st.reg[k]))
  IN [i \in 1..Len(keys) |-> st.reg[keys[i]]]

RECURSIVE close_each(_, _, _)
close_each(st, runs, now) ==
  IF runs = <<>> THEN st
  ELSE close_each(closed_in(st, Head(runs), "timeout_sweep", now, "timeout"),
                  Tail(runs), now)

sweep_in(st, now) == close_each(st, expired_in(st), now)

(* one unit of time.monotonic() *)
older_in(st) ==
  [st EXCEPT !.reg = [k \in DOMAIN st.reg |->
                        [st.reg[k] EXCEPT !.elapsed_mono =
                           IF @ < run_timeout_seconds + 1 THEN @ + 1 ELSE @]]]

TwinResolve(s, ts_a, ts_b) ==
  /\ twin.a.next <= MaxRuns
  /\ twin.b.next <= MaxRuns
  /\ twin' = [a |-> resolve_in(twin.a, s, ts_a),
              b |-> resolve_in(twin.b, s, ts_b)]
  /\ UNCHANGED <<rmvars, polvars, wrvars>>

TwinClose(rid, now_a, now_b) ==
  /\ rid < twin.a.next
  /\ twin' = [a |-> close_in(twin.a, rid, now_a),
              b |-> close_in(twin.b, rid, now_b)]
  /\ UNCHANGED <<rmvars, polvars, wrvars>>

TwinSweep(now_a, now_b) ==
  /\ twin' = [a |-> sweep_in(twin.a, now_a), b |-> sweep_in(twin.b, now_b)]
  /\ UNCHANGED <<rmvars, polvars, wrvars>>

TwinTick ==
  /\ twin' = [a |-> older_in(twin.a), b |-> older_in(twin.b)]
  /\ UNCHANGED <<rmvars, polvars, wrvars>>

(* The same two run managers, the first with no observer set and the      *)
(* second with an observer whose notify_run_end returns: obs is            *)
(* self._observer of the execution.  Both are given the same calls with    *)
(* the same timestamps.                                                    *)

(* _close_run_and_notify, run_manager.py:254-281 *)
closed_obs_guarded(obs, st, run, reason, ended_at, notify_reason) ==
  IF obs
  THEN [close_run_internal(st, run, reason) EXCEPT
          !.log[run.run_id].notifies = @ + 1,
          !.log[run.run_id].notify_reason =
             IF notify_reason = "-" THEN reason ELSE notify_reason,
          !.log[run.run_id].ended_at = ended_at,
          !.closes = Append(@, run.run_id)]
  ELSE st
closed_obs(obs, st, run, reason, ended_at, notify_reason) ==
  LET st1 == [close_run_internal(st, run, reason) EXCEPT
                !.closes = Append(@, run.run_id)]
  IN
  IF obs
  THEN [st1 EXCEPT
          !.log[run.run_id].notifies = @ + 1,
          !.log[run.run_id].notify_reason =
             IF notify_reason = "-" THEN reason ELSE notify_reason,
          !.log[run.run_id].ended_at = ended_at]
  ELSE st1

(* resolve_or_create_run, run_manager.py:172-195 *)
resolve_obs(obs, st, s, ts) ==
  IF s \notin DOMAIN st.reg
  THEN created_in(st, s, ts)
  ELSE IF is_timed_out(st.reg[s])
       THEN created_in(closed_obs(obs, st, st.reg[s], "timeout", ts, "timeout"),
                       s, ts)
       ELSE [st EXCEPT !.reg[s].last_seen_at = ts,
                       !.reg[s].elapsed_mono = 0,
                       !.is_new = FALSE,
                       !.run_id = st.reg[s].run_id]

(* close_run, run_manager.py:214-222, ended_at None replaced by now *)
close_obs(obs, st, rid, now) ==
  LET hits == SelectSeq(st.ord, LAMBDA k : st.reg[k].run_id = rid) IN
  IF hits = <<>> THEN st
  ELSE closed_obs(obs, st, st.reg[Head(hits)], "explicit", now, "-")

(* _sweep_expired_runs, run_manager.py:126-140 *)
RECURSIVE close_each_obs(_, _, _, _)
close_each_obs(obs, st, runs, now) ==
  IF runs = <<>> THEN st
  ELSE close_each_obs(obs,
         closed_obs(obs, st, Head(runs), "timeout_sweep", now, "timeout"),
         Tail(runs), now)

sweep_obs(obs, st, now) == close_each_obs(obs, st, expired_in(st), now)

ObsResolve(s, ts) ==
  /\ twin.a.next <= MaxRuns
  /\ twin' = [a |-> resolve_obs(FALSE, twin.a, s, ts),
              b |-> resolve_obs(TRUE, twin.b, s, ts)]
  /\ UNCHANGED <<rmvars, polvars, wrvars>>

ObsClose(rid, now) ==
  /\ rid < twin.a.next
  /\ twin' = [a |-> close_obs(FALSE, twin.a, rid, now),
              b |-> close_obs(TRUE, twin.b, rid, now)]
  /\ UNCHANGED <<rmvars, polvars, wrvars>>

ObsSweep(now) ==
  /\ twin' = [a |-> sweep_obs(FALSE, twin.a, now),
              b |-> sweep_obs(TRUE, twin.b, now)]
  /\ UNCHANGED <<rmvars, polvars, wrvars>>

----------------------------------------------------------------------------
(* The wrappers, wrapper.py:23-477, around a function decorated with       *)
(* MCPObserver.track.  A wrapped call is one step: nothing else calls the  *)
(* run manager meanwhile and no run is old enough to be closed, so the     *)
(* resolution it awaits returns without suspending.                        *)

(* call_id = str(uuid.uuid4()): an id that is no run manager's run id *)
CallId == 0

(* what the wrapped function does when it is called: it returns a plain    *)
(* value, returns an awaitable, or raises                                  *)
FuncOutcomes == {"value", "awaitable", "raises"}

NoRecord ==
  [submitted |-> FALSE, run_id |-> CallId, input_data |-> "none",
   output_data |-> "none", error |-> "none", can_store_full |-> FALSE,
   json_in |-> "none", json_out |-> "none", full_tracking_allowed |-> FALSE]

NoCall ==
  [wrapper |-> "-", track_io |-> FALSE, session |-> NoSession,
   resolve_raised |-> FALSE, func |-> "-", executed |-> FALSE,
   outcome |-> "none", events |-> <<>>, run_id |-> CallId,
   can_store_full |-> FALSE, record |-> NoRecord, guard |-> NoTask]

(* MCPObserver.record_call, observer.py:305-324: the payload it posts.     *)
(* "full" is the value as the wrapper passed it, "none" is None.           *)
trace_payload(run_id, input_data, output_data, error, can_store_full, json_in, json_out, full_tracking_allowed) ==
  [submitted |-> TRUE, run_id |-> run_id, input_data |-> input_data,
   output_data |-> output_data, error |-> error,
   can_store_full |-> can_store_full, json_in |-> json_in,
   json_out |-> json_out, full_tracking_allowed |-> full_tracking_allowed]

(* await observer.record_call(...), wrapper.py:168-182 and 396-410 *)
record_success(run_id, can_store_full, track_io) ==
  trace_payload(run_id, "full", "full", "none", can_store_full,
                IF can_store_full THEN "full" ELSE "none",
                IF can_store_full THEN "full" ELSE "none", track_io)

(* await observer.record_call(...), wrapper.py:223-237 *)
record_error_async(run_id, error, can_store_full, track_io) ==
  trace_payload(run_id, "full", "none", error, can_store_full,
                IF can_store_full THEN "full" ELSE "none",
                IF can_store_full THEN "error" ELSE "none", track_io)

(* observer.record_call(...), wrapper.py:451-465: the coroutine is made    *)
(* and never awaited, so nothing is posted                                 *)
record_error_sync(run_id, error, can_store_full, track_io) == NoRecord

(* result = await func(...): the exception it raises, "none"   *)
(* when it returns.  wrapper.py:134, func a coroutine function             *)
await_func_async(func) == IF func = "raises" THEN "func" ELSE "none"

(* wrapper.py:362, func a plain function: await of what it returned *)
await_func_sync(func) ==
  IF func = "raises" THEN "func"
  ELSE IF func = "awaitable" THEN "none" ELSE "type_error"

(* if observer.run_manager and session_id, wrapper.py:70 and 298, read     *)
(* outside any try: an observer without the attribute raises here          *)
AttributeMissing(w, track_io, s) ==
  /\ wret.outcome # "awaiting"
  /\ wret' = [NoCall EXCEPT !.wrapper = w, !.track_io = track_io,
                            !.session = s, !.outcome = "other_error",
                            !.events = <<"raise">>]
  /\ UNCHANGED <<rmvars, polvars>>

(* The call from the try block on, wrapper.py:130-243 and 358-471: the     *)
(* function, the policy check, the record.  guard is the owner of the run  *)
(* manager's lock at that time.                                            *)
Body(w, track_io, s, resolves, resolve_raised, run_id, func, tool, response, guard) ==
  LET error == IF w = "async" THEN await_func_async(func)
               ELSE await_func_sync(func)
      can_store_full == IF track_io THEN polret'.result ELSE FALSE
      record == IF error = "none"
                THEN record_success(run_id, can_store_full, track_io)
                ELSE IF w = "async"
                     THEN record_error_async(run_id, error, can_store_full, track_io)
                     ELSE record_error_sync(run_id, error, can_store_full, track_io)
  IN
  /\ IF track_io THEN CheckPolicy(tool, response, 0) ELSE UNCHANGED polvars
  /\ wret' =
       [wrapper |-> w, track_io |-> track_io, session |-> s,
        resolve_raised |-> resolve_raised,
        func |-> func, executed |-> TRUE,
        outcome |-> IF error = "none" THEN "result"
                    ELSE IF error = "func" THEN "func_error"
                    ELSE "other_error",
        events |-> (IF resolves THEN <<"resolve">> ELSE <<>>) \o <<"func">>
                   \o (IF track_io THEN <<"policy">> ELSE <<>>)
                   \o (IF record.submitted THEN <<"record">> ELSE <<>>)
                   \o (IF error = "none" THEN <<"return">> ELSE <<"raise">>),
        run_id |-> run_id, can_store_full |-> can_store_full,
        record |-> record, guard |-> guard]

(* await observer.run_manager.resolve_or_create_run(...), wrapper.py:72:   *)
(* the wrapper goes on when the call has returned                          *)
resolve_returned_early(c) == TRUE
resolve_returned(c) == task[c].pc = "idle"

(* The call from the resolution on, wrapper.py:70-243 and 298-471.  When   *)
(* the resolution is suspended, in the notification of a close, the        *)
(* wrapper waits for it.                                                   *)
Wrapped(w, track_io, s, resolve_raises, func, tool, response) ==
  LET resolves == run_manager = "set" /\ s # NoSession
      resolved == resolves /\ ~resolve_raises
  IN
  /\ wret.outcome # "awaiting"
  /\ IF resolved THEN CallResolve(1, s, 0) ELSE UNCHANGED rmvars
  /\ IF resolved /\ task'[1].pc # "idle"
     THEN /\ wret' = [NoCall EXCEPT !.wrapper = w, !.track_io = track_io,
                                    !.session = s, !.outcome = "awaiting",
                                    !.events = <<"resolve">>]
          /\ UNCHANGED polvars
     ELSE Body(w, track_io, s, resolves, resolves /\ resolve_raises,
               IF resolved THEN ret'.run_id ELSE CallId,
               func, tool, response, lock_owner')

(* The resolution the wrapper waited for has returned: the wrapper goes on *)
(* with the run id it returned.                                            *)
WrapperResume(func, tool, response) ==
  /\ wret.outcome = "awaiting"
  /\ resolve_returned(1)
  /\ Body(wret.wrapper, wret.track_io, wret.session, TRUE, FALSE,
          ret.run_id, func, tool, response, lock_owner)
  /\ UNCHANGED <<rmvars, run_manager, twvars>>

(* create_async_wrapper.async_wrapper, wrapper.py:27-247 *)
create_async_wrapper(track_io, s, resolve_raises, func, tool, response) ==
  /\ IF run_manager = "missing"
     THEN AttributeMissing("async", track_io, s)
     ELSE Wrapped("async", track_io, s, resolve_raises, func, tool, response)
  /\ UNCHANGED <<run_manager, twvars>>

(* create_sync_wrapper.async_wrapper, wrapper.py:256-475 *)
create_sync_wrapper(track_io, s, resolve_raises, func, tool, response) ==
  /\ IF run_manager = "missing"
     THEN AttributeMissing("sync", track_io, s)
     ELSE Wrapped("sync", track_io, s, resolve_raises, func, tool, response)
  /\ UNCHANGED <<run_manager, twvars>>

(* The application gives the observer the attribute the wrappers read,     *)
(* observer.run_manager = None or a RunManager; MCPObserver.__init__ sets  *)
(* none.                                                                   *)
SetRunManager(v) ==
  /\ run_manager = "missing"
  /\ run_manager' = v
  /\ UNCHANGED <<rmvars, polvars, twvars, wret>>

(* A call of a function decorated with MCPObserver.track,                  *)
(* observer.py:404-416: the wrapper is chosen by                           *)
(* asyncio.iscoroutinefunction(f)                                          *)
track(coroutine, track_io, s, resolve_raises, func, tool, response) ==
  IF coroutine
  THEN create_async_wrapper(track_io, s, resolve_raises, func, tool, response)
  ELSE create_sync_wrapper(track_io, s, resolve_raises, func, tool, response)

----------------------------------------------------------------------------
(* One unit of time passes. *)
Older(n) == IF n < ElapsedCap THEN n + 1 ELSE n

Tick ==
  /\ active_runs' = [k \in DOMAIN active_runs |->
        [active_runs[k] EXCEPT !.elapsed_mono = Older(@)]]
  /\ sw' = [k \in SweeperIds |->
        [sw[k] EXCEPT !.sleep_left = IF @ > 0 THEN @ - 1 ELSE 0,
                      !.expired = [i \in 1..Len(@) |->
                                     [@[i] EXCEPT !.elapsed_mono = Older(@)]]]]
  /\ hist' = [s \in Sessions |->
        [hist[s] EXCEPT !.gap = IF @ < 0 THEN @ ELSE Older(@)]]
  /\ UNCHANGED <<run_order, closed_runs_count, lock_owner,
                 lock_waiters, sweeper_task, shutdown_event, observer,
                 task, next_run, stops, run_session, close_log,
                 returned, ret>>
  /\ UNCHANGED nonrm

(* RunManager.__init__, run_manager.py:59-92, and set_observer, 94-96 *)
Init ==
  /\ active_runs = <<>>
  /\ run_order = <<>>
  /\ closed_runs_count = 0
  /\ lock_owner = NoTask
  /\ lock_waiters = <<>>
  /\ sweeper_task = 0
  /\ shutdown_event = FALSE
  /\ observer \in BOOLEAN
  /\ sw = [k \in SweeperIds |-> UnbornSweeper]
  /\ task = [c \in Callers |-> IdleTask]
  /\ next_run = 1
  /\ stops = 0
  /\ run_session = [r \in RunIds |-> NoSession]
  /\ close_log = [r \in RunIds |-> NoClose]
  /\ hist = [s \in Sessions |-> NoHist]
  /\ returned = [s \in Sessions |-> {}]
  /\ ret = NoRet
  /\ policy_cache = <<>>
  /\ wall = 0
  /\ last_outcome = [tool \in Tools |-> "none"]
  /\ polret = NoPolRet
  /\ twin = [a |-> NewExec, b |-> NewExec]
  /\ run_manager = "missing"
  /\ wret = NoCall

(* The registry under concurrent callers and the sweeper: every caller     *)
(* may call resolve_or_create_run and close_run at any time, the sweeper   *)
(* wakes at any time once its sleep is over, and time passes freely, also  *)
(* while a task is suspended in notify_run_end or waits for the lock.      *)
(* Wall-clock timestamps are never read by a branch of RunManager; in this *)
(* specification every caller passes, and datetime.now() reads, the same   *)
(* one.                                                                    *)
Calls(CS, Oks, Stamps) ==
  \/ \E c \in CS, s \in Sessions, ts \in Stamps : CallResolve(c, s, ts)
       /\ UNCHANGED nonrm
  \/ \E c \in CS : GrantResolve(c)
       /\ UNCHANGED nonrm
  \/ \E c \in CS, rid \in RunIds : CallClose(c, rid, -1, 0)
       /\ UNCHANGED nonrm
  \/ \E c \in CS : GrantClose(c, 0)
       /\ UNCHANGED nonrm
  \/ \E c \in CS, ok \in Oks : NotifyReturn(c, ok)
       /\ UNCHANGED nonrm
  \/ \E k \in SweeperIds : SweeperStart(k)
       /\ UNCHANGED nonrm
  \/ \E k \in SweeperIds : SweeperWake(k, 0)
       /\ UNCHANGED nonrm
  \/ \E k \in SweeperIds : GrantSweeper(k, 0)
       /\ UNCHANGED nonrm
  \/ \E k \in SweeperIds, ok \in Oks : SweeperNotifyReturn(k, 0, ok)
       /\ UNCHANGED nonrm

(* every notification is acknowledged, every timestamp is 0 *)
Step == Calls(Callers, {TRUE}, {0})

Next == Step \/ Tick

Spec == Init /\ [][Next]_vars

(* The same with the event loop on time: a task that can run does so       *)
(* before time passes.  Time passes only while every task is asleep,       *)
(* suspended in notify_run_end, waiting for a held lock, or in no call.    *)
ReadyTask ==
  \/ \E k \in SweeperIds : sw[k].pc = "created"
  \/ \E k \in SweeperIds : sw[k].pc = "sleep" /\ sw[k].sleep_left = 0
  \/ lock_owner = NoTask /\ lock_waiters # <<>>

TickTimed == ~ReadyTask /\ Tick

NextTimed == Step \/ TickTimed

SpecTimed == Init /\ [][NextTimed]_vars

(* The registry when notify_run_end may raise, under one caller and the    *)
(* sweeper.                                                                *)
NextNotify == Calls({1}, BOOLEAN, {0}) \/ Tick

SpecNotify == Init /\ [][NextNotify]_vars

(* The registry when a sweep iteration may raise, under one caller and the *)
(* sweeper.                                                                *)
NextFault ==
  \/ Calls({1}, {TRUE}, {0})
  \/ \E k \in SweeperIds : SweeperFault(k) /\ UNCHANGED nonrm
  \/ Tick

SpecFault == Init /\ [][NextFault]_vars

(* The registry when the callers pass any timestamps, under one caller and *)
(* the sweeper.                                                            *)
NextStamps == Calls({1}, {TRUE}, WallStamps) \/ Tick

SpecStamps == Init /\ [][NextStamps]_vars

(* Starting and stopping the sweeper around the calls of one session: two  *)
(* tasks call start_sweeper, stop_sweeper and resolve_or_create_run at any *)
(* time, every notification returns, and time passes.                      *)
CallerRuns(c) ==
  /\ \/ GrantResolve(c)
     \/ NotifyReturn(c, TRUE)
     \/ StopResume(c)
  /\ UNCHANGED nonrm

SweeperRuns(k) ==
  /\ \/ SweeperStart(k)
     \/ SweeperWake(k, 0)
     \/ GrantSweeper(k, 0)
     \/ SweeperNotifyReturn(k, 0, TRUE)
  /\ UNCHANGED nonrm

NextShutdown ==
  \/ \E c \in Callers : CallResolve(c, "s1", 0) /\ UNCHANGED nonrm
  \/ \E c \in Callers : CallStart(c) /\ UNCHANGED nonrm
  \/ \E c \in Callers : CallStop(c) /\ UNCHANGED nonrm
  \/ \E c \in Callers : CallerRuns(c)
  \/ \E k \in SweeperIds : SweeperRuns(k)
  \/ Tick

SpecShutdown == Init /\ [][NextShutdown]_vars

(* The registry of two sessions under one caller and the sweeper, with     *)
(* calls that refresh the run of a session, with any timestamp, whatever   *)
(* the number of runs created so far.                                      *)
NextSessions ==
  \/ Calls({1}, {TRUE}, {0})
  \/ \E s \in Sessions, ts \in WallStamps : ResolveKnown(1, s, ts)
       /\ UNCHANGED nonrm
  \/ Tick

SpecSessions == Init /\ [][NextSessions]_vars

(* The registry with the application starting and stopping the sweeper.    *)
NextStop ==
  \/ Step
  \/ \E c \in Callers : CallStart(c) /\ UNCHANGED nonrm
  \/ \E c \in Callers : CallStop(c) /\ UNCHANGED nonrm
  \/ \E c \in Callers : StopResume(c) /\ UNCHANGED nonrm
  \/ Tick

SpecStop == Init /\ [][NextStop]_vars

(* The two run managers under any sequence of calls, sweeps and timestamps. *)
NextTwin ==
  \/ \E s \in Sessions, ts_a \in WallStamps, ts_b \in WallStamps :
       TwinResolve(s, ts_a, ts_b)
  \/ \E rid \in RunIds, now_a \in WallStamps, now_b \in WallStamps :
       TwinClose(rid, now_a, now_b)
  \/ \E now_a \in WallStamps, now_b \in WallStamps : TwinSweep(now_a, now_b)
  \/ TwinTick

SpecTwin == Init /\ [][NextTwin]_vars

(* The run manager without an observer beside the one with an observer,   *)
(* under any sequence of calls, sweeps and timestamps.                      *)
NextObs ==
  \/ \E s \in Sessions, ts \in WallStamps : ObsResolve(s, ts)
  \/ \E rid \in RunIds, now \in WallStamps : ObsClose(rid, now)
  \/ \E now \in WallStamps : ObsSweep(now)
  \/ TwinTick

SpecObs == Init /\ [][NextObs]_vars

(* Wrapped calls, one after the other, of one tool, with and without a     *)
(* session, while the wall clock advances.  The policy authority grants,   *)
(* refuses or does not answer.                                             *)
WrapperSessions == {"s1", NoSession}

WrapperResponses ==
  {r \in Responses :
     \/ r.kind = "timeout"
     \/ /\ r.kind = "ok"
        /\ r.data.has_can_store_full
        /\ r.data.has_cache_ttl
        /\ r.data.cache_ttl > 0}

NextWrapper ==
  \/ \E track_io \in BOOLEAN, s \in WrapperSessions,
        resolve_raises \in BOOLEAN, func \in FuncOutcomes,
        response \in WrapperResponses :
       /\ s = NoSession => ~resolve_raises
       /\ ~track_io => response.kind = "timeout"
       /\ track(TRUE, track_io, s, resolve_raises, func, "echo", response)
  \/ \E track_io \in BOOLEAN, s \in WrapperSessions,
        resolve_raises \in BOOLEAN, func \in FuncOutcomes,
        response \in WrapperResponses :
       /\ s = NoSession => ~resolve_raises
       /\ ~track_io => response.kind = "timeout"
       /\ track(FALSE, track_io, s, resolve_raises, func, "echo", response)
  \/ \E v \in {"none", "set"} : SetRunManager(v)
  \/ WallTick /\ UNCHANGED <<twvars, wrvars>>

SpecWrapper == Init /\ [][NextWrapper]_vars

(* Wrapped calls of one tool for one session while time passes: the run    *)
(* of the session times out, and the resolution of the next call closes it *)
(* and is suspended in the notification of the close.                      *)
NextWrapperRun ==
  \/ SetRunManager("set")
  \/ \E coroutine \in BOOLEAN, track_io \in BOOLEAN, func \in FuncOutcomes,
        response \in WrapperResponses :
       /\ ~track_io => response.kind = "timeout"
       /\ track(coroutine, track_io, "s1", FALSE, func, "echo", response)
  \/ \E func \in FuncOutcomes, response \in WrapperResponses :
       /\ ~wret.track_io => response.kind = "timeout"
       /\ WrapperResume(func, "echo", response)
  \/ \E ok \in BOOLEAN :
       NotifyReturn(1, ok) /\ UNCHANGED nonrm
  \/ Tick

SpecWrapperRun == Init /\ [][NextWrapperRun]_vars

(* The policy cache under any sequence of checks and answers. *)
NextPolicy ==
  \/ \E tool \in Tools, response \in Responses, delay \in FetchDelays :
       check_tracking_policy(tool, response, delay)
         /\ UNCHANGED <<twvars, wrvars>>
  \/ WallTick /\ UNCHANGED <<twvars, wrvars>>

SpecPolicy == Init /\ [][NextPolicy]_vars

----------------------------------------------------------------------------
(* The registry and its history *)

RunsOf(s) == {k \in DOMAIN active_runs : active_runs[k].session_id = s}
OpenRuns(s) == {r \in RunIds : run_session[r] = s /\ close_log[r].closes = 0}
SweeperLive == \E k \in SweeperIds : sw[k].pc \in {"sleep", "wait", "notify"}

(* C1: in every reachable state the registry holds at most one run of each *)
(* session, and at most one run created for a session is not yet closed.   *)
C1_OneActiveRunPerSession ==
  \A s \in Sessions :
    /\ Cardinality(RunsOf(s)) <= 1
    /\ Cardinality(OpenRuns(s)) <= 1

(* A session whose earlier run was closed holds its next run while another *)
(* call waits for the lock.                                                *)
C1_Witness ==
  \E s \in Sessions :
    /\ Cardinality(RunsOf(s)) = 1
    /\ \E r \in RunIds : run_session[r] = s /\ close_log[r].closes = 1
    /\ \E c \in Callers : task[c].pc = "wait"

(* C2: a resolve_or_create_run applied to a session no later than the idle *)
(* timeout after the previous one, with no close_run of the session's run  *)
(* in between, returns is_new = FALSE and the run id the previous one      *)
(* returned.  The instant of a call is the instant it reads the monotonic  *)
(* clock in its critical section.                                          *)
C2_ReuseWithinTimeout ==
  (/\ ret.op = "resolve"
   /\ ret.prev_run # 0
   /\ ~ret.explicit
   /\ ret.gap >= 0
   /\ ret.gap <= run_timeout_seconds)
  => (~ret.is_new /\ ret.run_id = ret.prev_run)

(* A call exactly at the timeout reuses the run, with the sweeper live.    *)
C2_Witness ==
  /\ ret.op = "resolve"
  /\ ret.prev_run # 0
  /\ ~ret.explicit
  /\ ret.gap = run_timeout_seconds
  /\ ~ret.is_new
  /\ SweeperLive

(* C3: a resolve_or_create_run applied to a session later than the idle    *)
(* timeout after the previous one returns is_new = TRUE and a run id that  *)
(* no earlier call for the session returned.                               *)
C3_NewRunAfterTimeout ==
  (ret.op = "resolve" /\ ret.gap > run_timeout_seconds)
  => (ret.is_new /\ ret.fresh /\ ret.run_id # ret.prev_run)

(* The previous run was closed by the call itself (reason "timeout").      *)
C3_Witness ==
  /\ ret.op = "resolve"
  /\ ret.gap > run_timeout_seconds
  /\ ret.is_new
  /\ ret.prev_run # 0
  /\ close_log[ret.prev_run].reason = "timeout"

(* C5: every run is removed, counted and notified at most once, whichever  *)
(* of the sweeper, the timeout branch of resolve_or_create_run and         *)
(* close_run get to it.                                                    *)
C5_OneClosePerRun ==
  \A r \in RunIds :
    /\ close_log[r].closes <= 1
    /\ close_log[r].notifies <= 1
    /\ close_log[r].closes = 1 =>
         \A k \in DOMAIN active_runs : active_runs[k].run_id # r

(* A close_run came second to the sweeper on the same run.                 *)
C5_Witness ==
  /\ ret.op = "close"
  /\ ret.was_closed
  /\ close_log[ret.run_id].closes = 1
  /\ close_log[ret.run_id].reason = "timeout_sweep"
  /\ close_log[ret.run_id].notifies = 1

(* C6: close_run of an active run returns TRUE; close_run of a run id that *)
(* was closed before returns FALSE and changes neither the registry nor    *)
(* the closed-run counter.                                                 *)
C6_CloseTwice ==
  ret.op = "close" =>
    /\ ret.was_active => ret.result
    /\ ret.was_closed => (~ret.result /\ ~ret.touched)

(* The second close_run of a run that close_run closed.                    *)
C6_Witness ==
  /\ ret.op = "close"
  /\ ret.was_closed
  /\ ~ret.result
  /\ close_log[ret.run_id].reason = "explicit"

(* C7: close_run with a run id no active run has returns FALSE and leaves  *)
(* the registry, the closed-run counter and the observer alone.            *)
C7_CloseUnknown ==
  (ret.op = "close" /\ ~ret.was_active) => (~ret.result /\ ~ret.touched)

(* close_run with an id no run was ever given, while a run is active.      *)
C7_Witness ==
  /\ ret.op = "close"
  /\ run_session[ret.run_id] = NoSession
  /\ ~ret.result
  /\ active_runs # <<>>

(* C4: a run idle for longer than sweeper_interval + run_timeout_seconds   *)
(* is no longer in the registry (every run is created by a call that made  *)
(* sure the sweeper runs, and this specification never stops it).          *)
C4_SweptWithinBound ==
  \A k \in DOMAIN active_runs :
    active_runs[k].elapsed_mono <= run_timeout_seconds + sweeper_interval

----------------------------------------------------------------------------
(* The policy cache and its history *)

Checked == polret.kind # "none"

(* C8: a check made while the tool's entry has not expired returns the     *)
(* entry's decision, makes no request and leaves the cache alone; a check  *)
(* made after the entry's expiry makes exactly one request.                *)
C8_HitBeforeExpiryFetchAfter ==
  Checked /\ polret.had_entry =>
    /\ polret.now < polret.entry.expires_at =>
         /\ polret.fetches = 0
         /\ polret.result = polret.entry.can_store
         /\ polret.cache_same
    /\ polret.now > polret.entry.expires_at => polret.fetches = 1

(* a second hit in a row on an entry that allows full storage, after time  *)
(* has passed *)
C8_Witness ==
  /\ polret.kind = "hit" /\ polret.prev = "hit"
  /\ polret.now > 0 /\ polret.now < polret.entry.expires_at
  /\ polret.result /\ polret.fetches = 0

(* C9: a check whose request fails returns false and leaves the cache as   *)
(* it was, and the check that follows a failed one for the same tool makes *)
(* a request again.                                                        *)
C9_FailureCachesNothing ==
  /\ polret.kind = "failed" =>
       ~polret.result /\ polret.cache_same /\ polret.fetches = 1
  /\ polret.prev = "failed" => polret.fetches = 1

(* the check after a failed one, with the expired entry still in the cache *)
C9_Witness ==
  /\ polret.prev = "failed" /\ polret.fetches = 1
  /\ polret.had_entry /\ polret.entry.can_store
  /\ polret.tool \in DOMAIN policy_cache

(* C10: a check made at or after the expiry of the tool's entry does not   *)
(* answer from the cache: it makes a request, and returns false when the   *)
(* request fails, whatever the expired entry said.                         *)
C10_ExpiredEntryIsMiss ==
  Checked /\ polret.had_entry /\ polret.entry.expires_at <= polret.now =>
    /\ polret.source # "cache"
    /\ polret.fetches = 1
    /\ polret.kind = "failed" => ~polret.result

(* an entry that said true, checked at the instant of its expiry, with a   *)
(* refresh that fails *)
C10_Witness ==
  /\ polret.kind = "failed" /\ polret.had_entry /\ polret.entry.can_store
  /\ polret.entry.expires_at = polret.now /\ polret.now > 0
  /\ ~polret.result

----------------------------------------------------------------------------
(* Failing notifications *)

InRegistry(r) == \E k \in DOMAIN active_runs : active_runs[k].run_id = r
ClosedRuns == {r \in RunIds : close_log[r].closes > 0}

(* C11: an exception of notify_run_end leaves no closing operation: the    *)
(* run whose notification raised is out of the registry and counted once,  *)
(* the counter counts every closed run, a close_run whose notification     *)
(* raised returns TRUE, and a resolve_or_create_run whose notification     *)
(* raised returns a new run with is_new = TRUE.                            *)
C11_NotifyFailureSwallowed ==
  /\ closed_runs_count = Cardinality(ClosedRuns)
  /\ \A r \in RunIds :
       close_log[r].notify_error # "-" =>
         /\ close_log[r].notify_error = "caught"
         /\ close_log[r].closes = 1
         /\ ~InRegistry(r)
  /\ ret.notify_raised =>
       /\ ~ret.raised
       /\ ret.op = "close" => ret.result
       /\ ret.op = "resolve" =>
            /\ ret.is_new /\ ret.fresh
            /\ run_session[ret.run_id] # NoSession
            /\ ret.run_id # ret.prev_run

(* a timed-out resolve whose notification raised returned the session's    *)
(* next run, which is in the registry                                      *)
C11_Witness ==
  /\ ret.op = "resolve" /\ ret.notify_raised /\ ret.is_new
  /\ close_log[ret.prev_run].reason = "timeout"
  /\ close_log[ret.prev_run].notify_error = "caught"
  /\ closed_runs_count = 1
  /\ InRegistry(ret.run_id)

----------------------------------------------------------------------------
(* The lock and the notification *)

(* the tasks suspended in notify_run_end, with the session of the run the  *)
(* notification is about                                                   *)
Notifying ==
  {<<CallerTask(c), run_session[task[c].rid]>> :
      c \in {d \in Callers : task[d].pc = "notify"}} \cup
  {<<SweeperTask(k), run_session[sw[k].notifying]>> :
      k \in {j \in SweeperIds : sw[j].pc = "notify"}}

(* C12: no resolve_or_create_run waits for the lock while the lock's owner *)
(* is suspended in a notification about a run of another session.          *)
C12_UnrelatedSessionNotBlocked ==
  \A n \in Notifying : \A d \in Callers :
    ~(/\ lock_owner = n[1]
      /\ task[d].pc = "wait"
      /\ task[d].op = "resolve"
      /\ task[d].s # n[2])

----------------------------------------------------------------------------
(* Starting and stopping the sweeper *)

(* the sweeper loops that have run and not exited *)
RunningSweepers == {k \in SweeperIds : sw[k].pc \in {"sleep", "wait", "notify"}}

(* C13: when stop_sweeper has returned and no sweeper was created since,   *)
(* no sweeper loop is running.                                             *)
C13_NoSweeperAfterStop ==
  (ret.op = "stop" /\ NextSweeper - 1 = ret.sweepers) => RunningSweepers = {}

(* C14: at most one sweeper loop is running.                               *)
C14_OneSweeper == Cardinality(RunningSweepers) <= 1

----------------------------------------------------------------------------
(* Timestamps *)

(* C18: a resolve_or_create_run that reuses a run leaves the run's         *)
(* last_seen_at no earlier than it found it, and reads the monotonic clock *)
(* no earlier than the run's last_seen_at_mono.                            *)
C18_LastSeenNeverRegresses ==
  (ret.op = "resolve" /\ ~ret.is_new) =>
    /\ ret.seen_after >= ret.seen_before
    /\ ret.idle >= 0

(* C20: resolve_or_create_run returns is_new = TRUE exactly when, entering *)
(* its critical section, the session has no run or its run has been idle   *)
(* for more than the timeout; and when it leaves the critical section the  *)
(* registry holds the run it returns for the session.                      *)
C20_IsNewExactly ==
  ret.op = "resolve" =>
    /\ ret.is_new <=> (~ret.had_run \/ ret.idle > run_timeout_seconds)
    /\ ret.stored = ret.run_id

(* a call that found the session's run timed out, closed it while the      *)
(* observer was notified, and returned the next run                        *)
C20_Witness ==
  /\ ret.op = "resolve" /\ ret.had_run /\ ret.idle > run_timeout_seconds
  /\ ret.is_new /\ ret.stored = ret.run_id
  /\ close_log[ret.prev_run].notifies = 1
  /\ close_log[ret.prev_run].reason = "timeout"

(* C19: the decisions of the run manager do not depend on the wall-clock   *)
(* timestamps it is given.  Two executions that get the same calls at the  *)
(* same monotonic readings and differ in the timestamps alone return the   *)
(* same is_new and run id, create the same runs in the same order, close   *)
(* the same runs in the same order for the same reasons, and hold the same *)
(* registry but for the timestamps stored in it.                           *)
Erased(st) ==
  [st EXCEPT
     !.reg = [k \in DOMAIN st.reg |->
                [st.reg[k] EXCEPT !.started_at = 0, !.last_seen_at = 0]],
     !.log = [r \in RunIds |-> [st.log[r] EXCEPT !.ended_at = 0]]]

C19_WallClockIndependent == Erased(twin.a) = Erased(twin.b)

(* the two executions closed a run for a timeout and created its          *)
(* successor in a call that carried a later timestamp in the one than in   *)
(* the other                                                               *)
C19_Witness ==
  /\ twin.a.closes # <<>>
  /\ twin.a.log[twin.a.closes[1]].reason = "timeout"
  /\ twin.a.is_new
  /\ twin.b.is_new
  /\ twin.a.creations = <<1, 2>>
  /\ \E s \in DOMAIN twin.a.reg :
       /\ twin.a.reg[s].started_at > twin.b.reg[s].started_at
  /\ \E r \in RunIds : twin.a.log[r].ended_at > twin.b.log[r].ended_at

(* C15: every call record that is submitted carries the call's input and  *)
(* output in full only when the tool declared track_io and the policy      *)
(* decision of that call was true; otherwise neither appears in it.        *)
C15_RedactedUnlessAuthorized ==
  (wret.record.submitted /\ ~(wret.track_io /\ wret.can_store_full)) =>
    /\ wret.record.input_data # "full"
    /\ wret.record.output_data # "full"
    /\ wret.record.json_in # "full"
    /\ wret.record.json_out # "full"

(* C16: when the wrapped function raised, the wrapper, async or sync,      *)
(* submitted a record that carries the error and then raised the           *)
(* function's exception.                                                   *)
C16_RecordThenReraise ==
  (wret.executed /\ wret.func = "raises") =>
    /\ wret.outcome = "func_error"
    /\ wret.record.submitted
    /\ wret.record.error = "func"
    /\ \E i, j \in 1..Len(wret.events) :
         i < j /\ wret.events[i] = "record" /\ wret.events[j] = "raise"

(* C17: every wrapped call executes the function and, when the function    *)
(* returned, returns its result, whatever fails on the observability path; *)
(* when the run resolution raised, the run id of the call is its call id.  *)
C17_ObservabilityNeverFailsCall ==
  wret.wrapper # "-" =>
    /\ wret.executed
    /\ wret.func # "raises" => wret.outcome = "result"
    /\ wret.resolve_raised => wret.run_id = CallId

(* C21: a resolve_or_create_run that found the run of its session timed    *)
(* out has, while it is suspended in notify_run_end and when it returns,   *)
(* closed that run once with reason "timeout", taken it out of the         *)
(* registry and counted it, and told the observer once, with reason        *)
(* "timeout" and the timestamp of the call as ended_at; the replacement is *)
(* not in the registry before that, and the call holds the lock from the   *)
(* close to the insertion.                                                 *)
TimeoutClosed(r, ts) ==
  /\ close_log[r].closes = 1
  /\ close_log[r].reason = "timeout"
  /\ ~InRegistry(r)
  /\ closed_runs_count >= 1
  /\ observer => /\ close_log[r].notifies = 1
                 /\ close_log[r].notify_reason = "timeout"
                 /\ close_log[r].ended_at = ts

C21_TimeoutCloseBeforeReplace ==
  /\ \A c \in Callers :
       (task[c].pc = "notify" /\ task[c].op = "resolve") =>
         /\ TimeoutClosed(task[c].rid, task[c].ts)
         /\ task[c].s \notin DOMAIN active_runs
         /\ lock_owner = CallerTask(c)
  /\ (ret.op = "resolve" /\ ret.had_run /\ ret.is_new) =>
         /\ TimeoutClosed(ret.prev_run, ret.seen_after)
         /\ ret.stored = ret.run_id
         /\ ret.run_id # ret.prev_run

(* the call carried the later timestamp, was suspended in the notification *)
(* of the close and has returned the replacement                           *)
C21_Witness ==
  /\ ret.op = "resolve"
  /\ ret.had_run
  /\ ret.is_new
  /\ observer
  /\ ret.seen_after > 0
  /\ close_log[ret.prev_run].ended_at = ret.seen_after
  /\ close_log[ret.prev_run].notifies = 1
  /\ InRegistry(ret.run_id)

(* C22: every run the sweeper closed was notified to the observer with the *)
(* reason "timeout_sweep", and the reason of every notification tells      *)
(* which of the three close paths closed the run.                          *)
C22_SweepReasonDelivered ==
  \A r \in RunIds :
    close_log[r].notifies > 0 =>
      /\ close_log[r].notify_reason = close_log[r].reason
      /\ close_log[r].reason = "timeout_sweep" =>
           close_log[r].notify_reason = "timeout_sweep"

(* C23: while a notify_run_end for a run is in progress, however long it   *)
(* takes, the run is out of the registry and the closed-run counter        *)
(* counts it.                                                              *)
NotifyingRuns ==
  {task[c].rid : c \in {d \in Callers : task[d].pc = "notify"}} \cup
  {sw[k].notifying : k \in {j \in SweeperIds : sw[j].pc = "notify"}}

C23_NotifyAfterRemoval ==
  \A r \in NotifyingRuns :
    /\ ~InRegistry(r)
    /\ close_log[r].closes = 1
    /\ r \in ClosedRuns
    /\ closed_runs_count = Cardinality(ClosedRuns)

(* the sweeper's notification of the second run it closed is still in      *)
(* progress while a caller waits for the lock                              *)
C23_Witness ==
  /\ \E k \in SweeperIds :
       /\ sw[k].pc = "notify"
       /\ ~InRegistry(sw[k].notifying)
       /\ close_log[sw[k].notifying].reason = "timeout_sweep"
  /\ closed_runs_count = 2
  /\ \E c \in Callers : task[c].pc = "wait"

(* C24: the sweeper closes only runs that have been idle for longer than   *)
(* the timeout, and it judges and closes them in one critical section: a   *)
(* run it has judged expired and not yet closed is still in the registry   *)
(* as it was judged, but older, while the sweeper holds the lock, so no    *)
(* resolve_or_create_run refreshes it in between.                          *)
SweptNow(r) ==
  /\ close_log[r].closes = 0
  /\ close_log'[r].closes = 1
  /\ close_log'[r].reason = "timeout_sweep"

PendingKept(k) ==
  /\ lock_owner = SweeperTask(k)
  /\ \A i \in 1..Len(sw[k].expired) :
       LET run == sw[k].expired[i] IN
       /\ run.session_id \in DOMAIN active_runs
       /\ active_runs[run.session_id] = run
       /\ run.elapsed_mono > run_timeout_seconds

C24_SweepOnlyExpired ==
  /\ [](\A k \in SweeperIds : sw[k].pc = "notify" => PendingKept(k))
  /\ [][\A r \in RunIds :
          SweptNow(r) =>
            \E s \in DOMAIN active_runs :
              /\ active_runs[s].run_id = r
              /\ active_runs[s].elapsed_mono > run_timeout_seconds]_vars

(* a sweep closed the first run and left the second, which had been idle   *)
(* for exactly the timeout                                                 *)
C24_Witness ==
  /\ close_log[1].reason = "timeout_sweep"
  /\ close_log[2].closes = 0
  /\ \E s \in DOMAIN active_runs :
       /\ active_runs[s].run_id = 2
       /\ active_runs[s].elapsed_mono = run_timeout_seconds
  /\ \E k \in SweeperIds : sw[k].pc = "sleep" /\ sw[k].sleep_left = sweeper_interval

(* C25: a sweeper one of whose iterations raised is still in its loop, the *)
(* shutdown event not being set, and its later iterations close the        *)
(* expired runs: a later sweep of it that is not suspended in a            *)
(* notification leaves no run in the registry that has been idle for       *)
(* longer than the timeout.                                                *)
SweepsThrough(k) ==
  /\ sw[k].faults > 0
  /\ sw'[k].faults = sw[k].faults
  /\ \/ sw[k].pc = "sleep" /\ sw[k].sleep_left = 0
     \/ sw[k].pc = "wait"
  /\ sw'[k].pc = "sleep"
  /\ sw'[k].sleep_left = sweeper_interval

C25_SweeperSurvivesError ==
  /\ [](\A k \in SweeperIds :
         (sw[k].faults > 0 /\ ~shutdown_event) =>
            sw[k].pc \in {"sleep", "wait", "notify"})
  /\ [][\A k \in SweeperIds :
          SweepsThrough(k) =>
            \A s \in DOMAIN active_runs' :
              active_runs'[s].elapsed_mono <= run_timeout_seconds]_vars

(* the sweeper closes an expired run in an iteration after the one that    *)
(* raised                                                                  *)
C25_Witness ==
  \E k \in SweeperIds :
    /\ sw[k].faults > 0
    /\ sw[k].pc = "notify"
    /\ close_log[sw[k].notifying].reason = "timeout_sweep"
    /\ ~InRegistry(sw[k].notifying)

(* C26: expiry is strict.  A resolve_or_create_run that finds the run of   *)
(* its session idle for exactly the timeout reuses it, and a sweep leaves  *)
(* a run that has been idle for exactly the timeout in the registry.       *)
SweepStep(k) ==
  /\ \/ sw[k].pc = "sleep" /\ sw[k].sleep_left = 0
     \/ sw[k].pc = "wait"
  /\ sw'[k].pc \in {"sleep", "notify", "done"}
  /\ sw'[k] # sw[k]

C26_StrictExpiry ==
  /\ []((ret.op = "resolve" /\ ret.idle = run_timeout_seconds) =>
          (~ret.is_new /\ ret.run_id = ret.prev_run /\ ret.stored = ret.run_id))
  /\ [][\A k \in SweeperIds : \A s \in DOMAIN active_runs :
          (SweepStep(k) /\ active_runs[s].elapsed_mono = run_timeout_seconds) =>
             /\ s \in DOMAIN active_runs'
             /\ active_runs'[s] = active_runs[s]
             /\ close_log'[active_runs[s].run_id].closes = 0]_vars

(* a call at exactly the timeout reused the run, which has since been idle *)
(* for exactly the timeout again while the sweeper has just gone to sleep  *)
C26_Witness ==
  /\ ret.op = "resolve"
  /\ ret.idle = run_timeout_seconds
  /\ ~ret.is_new
  /\ \E s \in DOMAIN active_runs :
       /\ active_runs[s].run_id = ret.run_id
       /\ active_runs[s].elapsed_mono = run_timeout_seconds
  /\ \E k \in SweeperIds :
       sw[k].pc = "sleep" /\ sw[k].sleep_left = sweeper_interval

(* C27: after a successful fetch the entry of the tool is the decision the *)
(* authority returned, false when it gave none, with the expiry at the     *)
(* time of the store plus the TTL the authority returned, 3600 when it     *)
(* gave none; the check returned the decision it stored.                   *)
C27_StoreDecisionAndExpiry ==
  polret.kind = "stored" =>
    /\ polret.tool \in DOMAIN policy_cache
    /\ policy_cache[polret.tool].can_store =
         (polret.data.has_can_store_full /\ polret.data.can_store_full)
    /\ policy_cache[polret.tool].expires_at =
         polret.stored_at +
           (IF polret.data.has_cache_ttl THEN polret.data.cache_ttl ELSE 3600)
    /\ polret.result = policy_cache[polret.tool].can_store
    /\ polret.stored_at >= polret.now

(* a fetch that took time replaced a refusal that had expired by a grant   *)
(* without a TTL                                                           *)
C27_Witness ==
  /\ polret.kind = "stored"
  /\ polret.had_entry
  /\ ~polret.entry.can_store
  /\ polret.result
  /\ ~polret.data.has_cache_ttl
  /\ polret.stored_at > polret.now
  /\ policy_cache[polret.tool].expires_at = polret.stored_at + 3600

(* C28: no step removes an entry of the policy cache, and a step that adds *)
(* or changes the entry of a tool is a successful fetch for that tool: a   *)
(* cache hit, a failed fetch and a check for another tool leave it as it   *)
(* was.                                                                    *)
C28_CacheWrittenOnlyByFetch ==
  [][/\ DOMAIN policy_cache \subseteq DOMAIN policy_cache'
     /\ \A tool \in DOMAIN policy_cache' :
          (tool \notin DOMAIN policy_cache
             \/ policy_cache'[tool] # policy_cache[tool]) =>
            /\ polret'.kind = "stored"
            /\ polret'.tool = tool
            /\ ~polret'.cache_same
     /\ polret'.kind \in {"hit", "failed"} => policy_cache' = policy_cache]_vars

(* a cache hit for one tool while the expired entry of the other tool is   *)
(* still in the cache                                                      *)
C28_Witness ==
  /\ polret.kind = "hit"
  /\ polret.cache_same
  /\ \E other \in DOMAIN policy_cache :
       /\ other # polret.tool
       /\ policy_cache[other].expires_at <= polret.now

(* C29: when the wrapper consults the policy and when it submits the       *)
(* record, the task of the call does not hold the lock of the run manager: *)
(* the resolution it awaited has returned and is in no critical section.   *)
C29_PolicyAndRecordOutsideGuard ==
  (\E i \in 1..Len(wret.events) : wret.events[i] \in {"policy", "record"}) =>
    /\ wret.guard # CallerTask(1)
    /\ wret.guard = NoTask

(* the resolution of the call closed the timed-out run of the session and  *)
(* was suspended in the notification; the call then consulted the policy   *)
(* and submitted its record under the new run id                           *)
C29_Witness ==
  /\ wret.outcome = "result"
  /\ wret.track_io
  /\ wret.record.submitted
  /\ wret.run_id = 2
  /\ ret.op = "resolve" /\ ret.is_new /\ ret.had_run
  /\ close_log[1].notifies = 1
  /\ close_log[1].reason = "timeout"
  /\ wret.guard = NoTask

(* C30: in every wrapped call of a tool that declares track_io the policy  *)
(* is consulted before the function is executed: run resolution, policy,   *)
(* function, record.                                                       *)
C30_PolicyBeforeCall ==
  (wret.track_io /\ wret.executed) =>
    \E i, j \in 1..Len(wret.events) :
      i < j /\ wret.events[i] = "policy" /\ wret.events[j] = "func"

(* C31: a step of a resolve_or_create_run for a session, and a step of a   *)
(* close_run of a run, changes the registry entry (run id, started_at,     *)
(* last_seen_at) of no session but the one of the call, that is the        *)
(* session passed to resolve_or_create_run or the session of the run       *)
(* passed to close_run; it neither adds nor removes the entry of another   *)
(* session.                                                                *)
Entry(reg, s) ==
  IF s \in DOMAIN reg
  THEN <<reg[s].run_id, reg[s].started_at, reg[s].last_seen_at>>
  ELSE <<>>

(* the session a call in progress acts on *)
SessionOf(t) ==
  IF t.op = "resolve" THEN t.s
  ELSE IF t.op = "close" THEN run_session[t.rid]
  ELSE NoSession

(* a step of the sweeper in its sweep *)
SweeperStep ==
  \E k \in SweeperIds :
    sw[k].pc \in {"sleep", "wait", "notify"} /\ sw'[k] # sw[k]

(* the session of the call that makes this step: of the call the caller    *)
(* was in, else of the call it has entered, else of the call that was made *)
(* and returned in this step                                               *)
Acting ==
  IF \E c \in Callers : task[c].pc # "idle" /\ task'[c] # task[c]
  THEN {SessionOf(task[c]) : c \in {d \in Callers : task'[d] # task[d]}}
  ELSE IF \E c \in Callers : task'[c] # task[c]
  THEN {SessionOf(task'[c]) : c \in {d \in Callers : task'[d] # task[d]}}
  ELSE IF ret'.op = "resolve" THEN {run_session'[ret'.run_id]}
  ELSE IF ret'.op = "close" THEN {run_session[ret'.run_id]}
  ELSE {}

C31_SessionsDoNotInteract ==
  [][~SweeperStep =>
       \A s \in Sessions :
         Entry(active_runs', s) # Entry(active_runs, s) => s \in Acting]_vars

(* a call for the first session refreshed its run with a later timestamp   *)
(* while the run of the second session is in the registry as it was        *)
(* created, idle for some time                                             *)
C31_Witness ==
  /\ ret.op = "resolve"
  /\ ~ret.is_new
  /\ ret.run_id = 1
  /\ run_session[1] = "s1"
  /\ ret.seen_before = 0
  /\ Entry(active_runs, "s1") = <<1, 0, run_timeout_seconds + 1>>
  /\ Entry(active_runs, "s2") = <<2, 0, 0>>
  /\ active_runs["s2"].elapsed_mono > 0

(* C32: the run manager without an observer closes on every path as the    *)
(* one with an acknowledging observer does, given the same calls: the two  *)
(* have the same registry, in the same order, the same closed-run counter, *)
(* the same run ids created and closed, with the same reasons, and the     *)
(* same return values; every run it closed is out of its registry and      *)
(* counted, and it has notified nobody, while the other has notified once  *)
(* for each close.                                                         *)
Registry(st) ==
  [reg |-> st.reg, ord |-> st.ord, cnt |-> st.cnt, next |-> st.next,
   is_new |-> st.is_new, run_id |-> st.run_id, creations |-> st.creations,
   closes |-> st.closes,
   reasons |-> [r \in RunIds |-> <<st.log[r].closes, st.log[r].reason>>]]

C32_NoObserverInert ==
  /\ Registry(twin.a) = Registry(twin.b)
  /\ twin.a.cnt = Len(twin.a.closes)
  /\ \A r \in RunIds :
       /\ twin.a.log[r].notifies = 0
       /\ twin.a.log[r].notify_reason = "-"
       /\ twin.b.log[r].notifies = twin.b.log[r].closes
       /\ twin.a.log[r].closes > 0 =>
            /\ twin.a.log[r].closes = 1
            /\ \A s \in DOMAIN twin.a.reg : twin.a.reg[s].run_id # r

(* a call closed the timed-out first run and the sweeper the second: the   *)
(* observer was told of both, and the manager without one closed both      *)
C32_Witness ==
  /\ twin.a.closes = <<1, 2>>
  /\ twin.a.log[1].reason = "timeout"
  /\ twin.a.log[2].reason = "timeout_sweep"
  /\ twin.a.cnt = 2
  /\ twin.a.reg = <<>>
  /\ twin.b.log[1].notifies = 1
  /\ twin.b.log[2].notifies = 1
  /\ twin.a.log[1].notifies = 0

(* C33: no step decreases the closed-run counter, and whenever no task is  *)
(* in a critical section the counter is the number of runs created so far  *)
(* less the number of runs in the registry.                                *)
CreatedRuns == next_run - 1

C33_CounterAccounts ==
  /\ [](lock_owner = NoTask =>
          closed_runs_count = CreatedRuns - Cardinality(DOMAIN active_runs))
  /\ [][closed_runs_count' >= closed_runs_count]_vars

(* two runs were created and one of them closed; nobody holds or awaits    *)
(* the lock                                                                *)
C33_Witness ==
  /\ LockFree
  /\ CreatedRuns = 2
  /\ closed_runs_count = 1
  /\ Cardinality(DOMAIN active_runs) = 1
  /\ \A c \in Callers : task[c].pc = "idle"

(* C34: a sweeper that a stop_sweeper call awaits, the call having set the *)
(* shutdown event, leaves its loop at its next loop test: it begins no     *)
(* further sleep, so that the call returns once the sweeper has woken,     *)
(* swept and tested the event.                                             *)
AwaitedSweepers ==
  {task[c].rid : c \in {d \in Callers : task[d].pc = "await_task"}}

(* the sweeper passes its loop test and sleeps, run_manager.py:116-118 *)
NewSleep(k) ==
  /\ sw'[k].pc = "sleep"
  /\ sw'[k].sleep_left = sweeper_interval
  /\ sw[k].pc \in {"created", "sleep", "wait", "notify"}
  /\ ~(sw[k].pc = "sleep" /\ sw[k].sleep_left = sweeper_interval)

C34_StopEndsSweeper ==
  [][\A k \in AwaitedSweepers : ~NewSleep(k)]_vars

(* C35: no sweep begins while the shutdown event is set: a sweeper whose   *)
(* sleep is over enters _sweep_expired_runs only with the event clear, and *)
(* no run is closed with reason "timeout_sweep" while the event is set.    *)
SweepBegins(k) ==
  /\ sw[k].pc = "sleep"
  /\ sw[k].sleep_left = 0
  /\ sw'[k] # sw[k]

C35_NoSweepAfterShutdown ==
  [][/\ \A k \in SweeperIds : SweepBegins(k) => ~shutdown_event
     /\ \A r \in RunIds : SweptNow(r) => ~shutdown_event]_vars

(* C36: when a resolve_or_create_run returns, a sweeper task is alive and  *)
(* the shutdown event is clear, whatever stop_sweeper calls are in         *)
(* progress.                                                               *)

(* the step in which a resolve_or_create_run returns: a call that was      *)
(* suspended goes on to its return, or a call is made and returns at once  *)
ResolveAtOnce ==
  /\ task' = task
  /\ ~SweeperStep
  /\ ret'.op = "resolve"
  /\ hist'[run_session'[ret'.run_id]].gap = 0
  /\ <<ret, hist, active_runs>>' # <<ret, hist, active_runs>>

ResolveReturns ==
  \/ \E c \in Callers : task[c].op = "resolve" /\ task'[c].pc = "idle"
  \/ ResolveAtOnce

C36_ResolveLeavesLiveSweeper ==
  [][ResolveReturns =>
       /\ \E k \in SweeperIds : sw'[k].pc \notin {"unborn", "done"}
       /\ ~shutdown_event']_vars

(* C37: once stop_sweeper has returned and left no sweeper task, the next  *)
(* start_sweeper or resolve_or_create_run creates a sweeper task and       *)
(* leaves the shutdown event clear; a sweeper that runs for the first time *)
(* with the event clear goes to sleep, and the current sweeper finds the   *)
(* event set at its first test only if a stop_sweeper called after it was  *)
(* created awaits it.                                                      *)

(* the step in which start_sweeper is called, by the application or by a   *)
(* resolve_or_create_run                                                   *)
StartCalled ==
  \/ sweeper_task' # sweeper_task /\ sweeper_task' # 0
  \/ \E c \in Callers : task[c].pc = "idle" /\ task'[c].op = "resolve"
  \/ ResolveAtOnce

C37_SweeperRestartable ==
  /\ [][(StartCalled /\ sweeper_task = 0 /\ stops > 0) =>
          /\ sweeper_task' # 0
          /\ sw[sweeper_task'].pc = "unborn"
          /\ sw'[sweeper_task'].pc = "created"
          /\ ~shutdown_event']_vars
  /\ [][\A k \in SweeperIds :
          (sw[k].pc = "created" /\ ~shutdown_event /\ sw'[k] # sw[k]) =>
             /\ sw'[k].pc = "sleep"
             /\ sw'[k].sleep_left = sweeper_interval]_vars
  /\ [](\A k \in SweeperIds :
          (sw[k].pc = "created" /\ sweeper_task = k /\ shutdown_event) =>
             \E c \in Callers :
               task[c].pc = "await_task" /\ task[c].rid = k)

(* the first sweeper was stopped and the stop has returned; the sweeper    *)
(* started by a later call has closed the run and is notifying its end     *)
C37_Witness ==
  /\ stops = 1
  /\ \A c \in Callers : task[c].pc = "idle"
  /\ sw[1].pc = "done"
  /\ sweeper_task = 2
  /\ ~shutdown_event
  /\ sw[2].pc = "notify"
  /\ sw[2].notifying = 1
  /\ close_log[1].reason = "timeout_sweep"

(* C38: in every reachable state the entry stored under a session key is a *)
(* run of that session, the keys in insertion order are the keys of the    *)
(* registry, and no two entries hold the same run id; a close_run that     *)
(* closes a run removes the entry holding its run id and no other, and     *)
(* leaves every other entry as it was.                                     *)
KeysConsistent ==
  /\ \A s \in DOMAIN active_runs : active_runs[s].session_id = s
  /\ \A s, t \in DOMAIN active_runs :
       active_runs[s].run_id = active_runs[t].run_id => s = t
  /\ {run_order[i] : i \in 1..Len(run_order)} = DOMAIN active_runs
  /\ Len(run_order) = Cardinality(DOMAIN active_runs)

ClosedExplicitlyNow(r) ==
  /\ close_log[r].closes = 0
  /\ close_log'[r].closes = 1
  /\ close_log'[r].reason = "explicit"

C38_RegistryKeysConsistent ==
  /\ []KeysConsistent
  /\ [][\A r \in RunIds :
          ClosedExplicitlyNow(r) =>
            \E s \in DOMAIN active_runs :
              /\ active_runs[s].run_id = r
              /\ DOMAIN active_runs' = DOMAIN active_runs \ {s}
              /\ \A t \in DOMAIN active_runs' :
                   active_runs'[t] = active_runs[t]
              /\ closed_runs_count' = closed_runs_count + 1]_vars

(* close_run of the first run has returned True and the run of the other   *)
(* session is still stored under its own key                               *)
C38_Witness ==
  /\ ret.op = "close"
  /\ ret.result
  /\ ret.run_id = 1
  /\ close_log[1].reason = "explicit"
  /\ DOMAIN active_runs = {"s2"}
  /\ active_runs["s2"].run_id = 2
  /\ active_runs["s2"].session_id = "s2"
  /\ run_session[1] = "s1"

====
